---- MODULE Spec2Model ----
(***************************************************************************)
(* Product catalogue utilities: filterProducts / filterByCategories        *)
(* (src/utils/product-filter.ts) and sortProducts                          *)
(* (src/utils/product-sorter.ts).                                          *)
(*                                                                         *)
(* A JavaScript string is a sequence of one-character strings, so that     *)
(* trim, toLowerCase, includes and localeCompare are computed character by *)
(* character.  An optional value (a property that may be absent or         *)
(* undefined) is a set with no element or with one element.                *)
(***************************************************************************)
EXTENDS Integers, Sequences, FiniteSets, TLC

VARIABLES pc, fn, products, criteria, selectedCategories, additionalCriteria,
          sortOption, out, outRef, again, queue, batch

vars == <<pc, fn, products, criteria, selectedCategories, additionalCriteria,
          sortOption, out, outRef, again, queue, batch>>

\* ------------------------------------------------------------------------
\* Bounds
\* ------------------------------------------------------------------------
MaxFilterLen == 3

MaxSortLen == 4

\* ------------------------------------------------------------------------
\* Optional values and property reads
\* ------------------------------------------------------------------------
Undefined == {}

Some(v) == {v}

Has(o) == o # {}

Val(o) == CHOOSE v \in o : TRUE

\* obj.key : an absent property reads as undefined
Get(obj, key) == IF key \in DOMAIN obj THEN obj[key] ELSE Undefined

Range(s) == {s[i] : i \in 1..Len(s)}

\* ------------------------------------------------------------------------
\* String primitives of the runtime
\* ------------------------------------------------------------------------
IsWhitespace(c) == c = " "

\* String.prototype.toLowerCase, one character
lowerChar(c) ==
  CASE c = "A" -> "a"
    [] c = "B" -> "b"
    [] c = "D" -> "d"
    [] c = "E" -> "e"
    [] c = "N" -> "n"
    [] c = "Z" -> "z"
    [] OTHER -> c

toLowerCase(s) == [i \in 1..Len(s) |-> lowerChar(s[i])]

RECURSIVE trimStart(_)
trimStart(s) ==
  IF Len(s) > 0 /\ IsWhitespace(Head(s)) THEN trimStart(Tail(s)) ELSE s

RECURSIVE trimEnd(_)
trimEnd(s) ==
  IF Len(s) > 0 /\ IsWhitespace(s[Len(s)])
  THEN trimEnd(SubSeq(s, 1, Len(s) - 1))
  ELSE s

\* String.prototype.trim
trim(s) == trimEnd(trimStart(s))

\* String.prototype.includes : t occurs in s as a contiguous substring
includes(s, t) ==
  \E i \in 0..(Len(s) - Len(t)) : SubSeq(s, i + 1, i + Len(t)) = t

\* Array.prototype.includes
arrayIncludes(arr, x) == \E i \in 1..Len(arr) : arr[i] = x

\* ------------------------------------------------------------------------
\* filterProducts
\* ------------------------------------------------------------------------
passesCategoriesNoLengthCheck(product, c) ==
  LET cats == Get(c, "categories") IN
  IF Has(cats) THEN arrayIncludes(Val(cats), product.category) ELSE TRUE

\* if (criteria.categories && criteria.categories.length > 0) ...
passesCategories(product, c) ==
  LET cats == Get(c, "categories") IN
  IF Has(cats) /\ Len(Val(cats)) > 0
  THEN arrayIncludes(Val(cats), product.category)
  ELSE TRUE

passesPriceRangeExclusive(product, c) ==
  LET pr == Get(c, "priceRange") IN
  IF Has(pr)
  THEN ~(product.price <= Val(pr).min \/ product.price >= Val(pr).max)
  ELSE TRUE

\* if (criteria.priceRange) ... product.price < min || product.price > max
passesPriceRange(product, c) ==
  LET pr == Get(c, "priceRange") IN
  IF Has(pr)
  THEN ~(product.price < Val(pr).min \/ product.price > Val(pr).max)
  ELSE TRUE

passesMinRatingInverted(product, c) ==
  LET mr == Get(c, "minRating") IN
  IF Has(mr) THEN ~(product.rating > Val(mr)) ELSE TRUE

\* if (criteria.minRating !== undefined) ... product.rating < minRating
passesMinRating(product, c) ==
  LET mr == Get(c, "minRating") IN
  IF Has(mr) THEN ~(product.rating < Val(mr)) ELSE TRUE

\* if (criteria.searchTerm && criteria.searchTerm.trim().length > 0) ...
\* the term that is searched for is lower-cased but not trimmed
passesSearchTerm(product, c) ==
  LET st == Get(c, "searchTerm") IN
  IF Has(st) /\ Len(Val(st)) > 0 /\ Len(trim(Val(st))) > 0
  THEN LET searchLower == toLowerCase(Val(st))
       IN  includes(toLowerCase(product.name), searchLower)
  ELSE TRUE

\* the callback handed to products.filter
filterCallback(product, c) ==
  /\ passesCategories(product, c)
  /\ passesPriceRange(product, c)
  /\ passesMinRating(product, c)
  /\ passesSearchTerm(product, c)

RECURSIVE reverseSeq(_)
reverseSeq(s) ==
  IF Len(s) = 0 THEN <<>> ELSE Append(reverseSeq(Tail(s)), Head(s))

filterProductsReversed(ps, c) ==
  reverseSeq(SelectSeq(ps, LAMBDA p : filterCallback(p, c)))

\* Array.prototype.filter keeps the elements the callback accepts, in order
filterProducts(ps, c) == SelectSeq(ps, LAMBDA p : filterCallback(p, c))

\* { categories: ..., ...additionalCriteria } : later keys override earlier
spread(base, extra) ==
  IF Has(extra)
  THEN [k \in (DOMAIN base) \cup (DOMAIN Val(extra)) |->
          IF k \in DOMAIN Val(extra) THEN Val(extra)[k] ELSE base[k]]
  ELSE base

filterByCategoriesDropExtra(ps, selected, extra) ==
  filterProducts(ps,
    [categories |-> IF Len(selected) > 0 THEN Some(selected) ELSE Undefined])

filterByCategories(ps, selected, extra) ==
  filterProducts(ps,
    spread([categories |-> IF Len(selected) > 0 THEN Some(selected)
                                                ELSE Undefined],
           extra))

\* ------------------------------------------------------------------------
\* Inputs of the filter functions
\* ------------------------------------------------------------------------
Zed == <<"Z", "e", "d">>

Ann == <<"A", "n", "n">>

FilterPool ==
  { [id |-> "1", name |-> Zed, price |-> 10, rating |-> 4,
     reviewCount |-> Some(5), category |-> "X"],
    [id |-> "2", name |-> Ann, price |-> 20, rating |-> 4,
     reviewCount |-> Some(50), category |-> "Y"],
    [id |-> "3", name |-> <<"a", "n", " ", "Z">>, price |-> 20, rating |-> 5,
     reviewCount |-> Undefined, category |-> "X"],
    [id |-> "4", name |-> <<"D", "A", "N">>, price |-> 30, rating |-> 3,
     reviewCount |-> Some(0), category |-> "W"] }

SeqsUpTo(S, n) == UNION {[1..k -> S] : k \in 0..n}

CategoryLists == {<<>>, <<"X">>, <<"Y", "X">>, <<"V">>}

PriceRanges == {[min |-> 10, max |-> 20], [min |-> 20, max |-> 20],
                [min |-> 30, max |-> 10]}

MinRatings == {0, 4, 5}

SearchTerms == {<<>>, <<" ">>, <<"a", "n">>, <<"A", "N">>, <<" ", "a", "n">>,
                <<"n", " ", "z">>, <<"e", "d", " ">>}

Opt(S) == {Undefined} \cup {Some(v) : v \in S}

ExtraCriteria ==
  [priceRange : Opt(PriceRanges), minRating : Opt(MinRatings),
   searchTerm : Opt(SearchTerms)]

Criteria ==
  [categories : Opt(CategoryLists), priceRange : Opt(PriceRanges),
   minRating : Opt(MinRatings), searchTerm : Opt(SearchTerms)]

NoCriteria == [categories |-> Undefined]

\* ------------------------------------------------------------------------
\* The filter functions as a state machine: one call per behaviour
\* ------------------------------------------------------------------------
InitFilter ==
  /\ pc = "call"
  /\ products \in SeqsUpTo(FilterPool, MaxFilterLen)
  /\ sortOption = "name-asc"
  /\ out = <<>>
  /\ outRef = "none"
  /\ again = <<>>
  /\ queue = <<>>
  /\ batch = <<>>
  /\ \/ /\ fn = "filterProducts"
        /\ criteria \in Criteria
        /\ selectedCategories = <<>>
        /\ additionalCriteria = Undefined
     \/ /\ fn = "filterByCategories"
        /\ criteria = NoCriteria
        /\ selectedCategories \in CategoryLists
        /\ additionalCriteria \in Opt(ExtraCriteria)

CallFilterProducts ==
  /\ pc = "call"
  /\ fn = "filterProducts"
  /\ out' = filterProducts(products, criteria)
  /\ outRef' = "filtered"
  /\ pc' = "done"
  /\ UNCHANGED <<fn, products, criteria, selectedCategories,
                 additionalCriteria, sortOption, again, queue, batch>>

CallFilterByCategories ==
  /\ pc = "call"
  /\ fn = "filterByCategories"
  /\ out' = filterByCategories(products, selectedCategories,
                               additionalCriteria)
  /\ outRef' = "filtered"
  /\ pc' = "done"
  /\ UNCHANGED <<fn, products, criteria, selectedCategories,
                 additionalCriteria, sortOption, again, queue, batch>>

NextFilter == CallFilterProducts \/ CallFilterByCategories

SpecFilter == InitFilter /\ [][NextFilter]_vars

FilterDone == pc = "done" /\ fn = "filterProducts"

\* ------------------------------------------------------------------------
\* Properties of filterProducts and filterByCategories
\* ------------------------------------------------------------------------
critCategories == Get(criteria, "categories")

critPriceRange == Get(criteria, "priceRange")

critMinRating == Get(criteria, "minRating")

critSearchTerm == Get(criteria, "searchTerm")

CategoriesActive == Has(critCategories) /\ Len(Val(critCategories)) > 0

SearchActive == Has(critSearchTerm) /\ trim(Val(critSearchTerm)) # <<>>

\* the product at position i of the input occurs in the result
Kept(i) == \E j \in 1..Len(out) : out[j] = products[i]

InCategories(p) == p.category \in Range(Val(critCategories))

InPriceRange(p) ==
  Val(critPriceRange).min <= p.price /\ p.price <= Val(critPriceRange).max

AtLeastMinRating(p) == p.rating >= Val(critMinRating)

\* the case-folded name contains the trimmed, case-folded term
NameHasTrimmedTerm(p) ==
  includes(toLowerCase(p.name), toLowerCase(trim(Val(critSearchTerm))))

\* C1: every element of filterProducts(P, criteria) is an element of P and
\* satisfies every active criterion: category in categories when categories
\* is non-empty, min <= price <= max when priceRange is supplied,
\* rating >= minRating when minRating is supplied, and the case-folded name
\* contains the trimmed, case-folded searchTerm when the term is not blank.
C1_ResultSatisfiesCriteria ==
  FilterDone =>
    \A j \in 1..Len(out) :
      /\ out[j] \in Range(products)
      /\ CategoriesActive => InCategories(out[j])
      /\ Has(critPriceRange) => InPriceRange(out[j])
      /\ Has(critMinRating) => AtLeastMinRating(out[j])
      /\ SearchActive => NameHasTrimmedTerm(out[j])

C1_Witness ==
  /\ FilterDone
  /\ CategoriesActive
  /\ Has(critPriceRange)
  /\ Has(critMinRating)
  /\ SearchActive
  /\ Len(out) > 0
  /\ Len(out) < Len(products)

\* C2: with no searchTerm supplied, a product of P is in the result if and
\* only if it satisfies every supplied criterion among categories (a
\* non-empty list), priceRange (inclusive at both ends) and minRating
\* (rating >= minRating, minRating = 0 included).
C2_NoSearchExactCriteria ==
  (FilterDone /\ ~Has(critSearchTerm)) =>
    \A i \in 1..Len(products) :
      Kept(i) <=>
        /\ CategoriesActive => InCategories(products[i])
        /\ Has(critPriceRange) => InPriceRange(products[i])
        /\ Has(critMinRating) => AtLeastMinRating(products[i])

C2_Witness ==
  /\ FilterDone
  /\ ~Has(critSearchTerm)
  /\ Has(critPriceRange)
  /\ Has(critMinRating)
  /\ \E i \in 1..Len(products) :
       /\ Kept(i)
       /\ products[i].price = Val(critPriceRange).min
       /\ products[i].price = Val(critPriceRange).max
       /\ products[i].rating = Val(critMinRating)
  /\ \E i \in 1..Len(products) : ~Kept(i)

OnlySearchTerm ==
  /\ ~Has(critCategories)
  /\ ~Has(critPriceRange)
  /\ ~Has(critMinRating)
  /\ Has(critSearchTerm)

\* C3: when only searchTerm is supplied, a product passes if and only if
\* its case-folded name contains the term after the term has been trimmed
\* and case-folded; an empty or whitespace-only term lets every product
\* pass.
C3_SearchUsesTrimmedTerm ==
  (FilterDone /\ OnlySearchTerm) =>
    \A i \in 1..Len(products) :
      Kept(i) <=> (~SearchActive \/ NameHasTrimmedTerm(products[i]))

\* C4: when categories is present and non-empty a product passes only if
\* its category is a member of categories; when categories is absent or
\* the empty list the criterion is not applied, so that a product is kept
\* exactly when the other three criteria accept it.
C4_CategoriesCriterion ==
  FilterDone =>
    /\ CategoriesActive =>
         \A i \in 1..Len(products) : Kept(i) => InCategories(products[i])
    /\ ~CategoriesActive =>
         \A i \in 1..Len(products) :
           Kept(i) <=>
             /\ passesPriceRange(products[i], criteria)
             /\ passesMinRating(products[i], criteria)
             /\ passesSearchTerm(products[i], criteria)

C4_Witness ==
  /\ FilterDone
  /\ critCategories = Some(<<>>)
  /\ ~Has(critPriceRange)
  /\ Len(products) > 1
  /\ out = products

RECURSIVE IsSubsequence(_, _)
IsSubsequence(a, b) ==
  IF a = <<>> THEN TRUE
  ELSE IF b = <<>> THEN FALSE
  ELSE IF Head(a) = Head(b) THEN IsSubsequence(Tail(a), Tail(b))
  ELSE IsSubsequence(a, Tail(b))

\* C5: filterProducts(P, criteria) is a subsequence of P: the kept products
\* appear in the order they have in P, none more often than in P.
C5_ResultIsSubsequence == FilterDone => IsSubsequence(out, products)

C5_Witness ==
  /\ FilterDone
  /\ Len(out) = 2
  /\ Len(products) = 3
  /\ out[1] # out[2]
  /\ out[1] = products[1]
  /\ out[2] = products[3]

FilterByCategoriesDone == pc = "done" /\ fn = "filterByCategories"

\* extra merged with categories = selectedCategories
MergedCriteria ==
  [categories |-> Some(selectedCategories),
   priceRange |-> IF Has(additionalCriteria)
                  THEN Val(additionalCriteria).priceRange ELSE Undefined,
   minRating  |-> IF Has(additionalCriteria)
                  THEN Val(additionalCriteria).minRating ELSE Undefined,
   searchTerm |-> IF Has(additionalCriteria)
                  THEN Val(additionalCriteria).searchTerm ELSE Undefined]

NoExtraCriteria ==
  \/ ~Has(additionalCriteria)
  \/ /\ ~Has(Val(additionalCriteria).priceRange)
     /\ ~Has(Val(additionalCriteria).minRating)
     /\ ~Has(Val(additionalCriteria).searchTerm)

\* C6: filterByCategories(P, selectedCategories, extra) returns the same
\* sequence as filterProducts(P, extra merged with categories =
\* selectedCategories); filterByCategories(P, []) returns all of P in its
\* original order.
C6_FilterByCategoriesEquivalent ==
  FilterByCategoriesDone =>
    /\ out = filterProducts(products, MergedCriteria)
    /\ (selectedCategories = <<>> /\ NoExtraCriteria) => out = products

C6_Witness ==
  /\ FilterByCategoriesDone
  /\ Len(selectedCategories) > 0
  /\ Has(additionalCriteria)
  /\ Has(Val(additionalCriteria).minRating)
  /\ Len(out) > 0
  /\ Len(out) < Len(products)
  /\ \E i \in 1..Len(products) :
       /\ products[i].category \in Range(selectedCategories)
       /\ ~(\E j \in 1..Len(out) : out[j] = products[i])

\* ------------------------------------------------------------------------
\* sortProducts
\* ------------------------------------------------------------------------
\* Collation weights of String.prototype.localeCompare (default locale,
\* default sensitivity): letters are ordered alphabetically whatever their
\* case, a space sorts before every letter, and between strings that differ
\* by case only the first difference decides, lower case first.
primaryWeight(c) ==
  CASE c = " " -> 0
    [] lowerChar(c) = "a" -> 1
    [] lowerChar(c) = "b" -> 2
    [] lowerChar(c) = "d" -> 3
    [] lowerChar(c) = "e" -> 4
    [] lowerChar(c) = "n" -> 5
    [] lowerChar(c) = "z" -> 6
    [] OTHER -> 7

tertiaryWeight(c) == IF lowerChar(c) = c THEN 0 ELSE 1

RECURSIVE lexCompare(_, _)
lexCompare(a, b) ==
  IF Len(a) = 0 /\ Len(b) = 0 THEN 0
  ELSE IF Len(a) = 0 THEN -1
  ELSE IF Len(b) = 0 THEN 1
  ELSE IF Head(a) < Head(b) THEN -1
  ELSE IF Head(a) > Head(b) THEN 1
  ELSE lexCompare(Tail(a), Tail(b))

localeCompare(a, b) ==
  LET primary == lexCompare([i \in 1..Len(a) |-> primaryWeight(a[i])],
                            [i \in 1..Len(b) |-> primaryWeight(b[i])])
  IN  IF primary # 0 THEN primary
      ELSE lexCompare([i \in 1..Len(a) |-> tertiaryWeight(a[i])],
                      [i \in 1..Len(b) |-> tertiaryWeight(b[i])])

\* x.reviewCount || 0
reviewCountOrZero(p) == IF Has(p.reviewCount) THEN Val(p.reviewCount) ELSE 0

compareNameAsc(a, b) == localeCompare(a.name, b.name)

compareNameDescCopied(a, b) == localeCompare(a.name, b.name)

compareNameDesc(a, b) == localeCompare(b.name, a.name)

\* a comparator that never answers "equal"
comparePriceAscNeverEqual(a, b) == IF a.price < b.price THEN -1 ELSE 1

comparePriceAsc(a, b) == a.price - b.price

comparePriceDesc(a, b) == b.price - a.price

compareRatingNoTieBreak(a, b) == b.rating - a.rating

compareRating(a, b) ==
  IF b.rating # a.rating
  THEN b.rating - a.rating
  ELSE reviewCountOrZero(b) - reviewCountOrZero(a)

\* the comparator without the "|| 0": a missing count makes the difference
\* NaN, which the sort reads as "equal"
compareReviewsNoDefault(a, b) ==
  IF ~Has(a.reviewCount) \/ ~Has(b.reviewCount) THEN 0
  ELSE IF Val(b.reviewCount) # Val(a.reviewCount)
  THEN Val(b.reviewCount) - Val(a.reviewCount)
  ELSE b.rating - a.rating

compareReviews(a, b) ==
  LET aReviews == reviewCountOrZero(a)
      bReviews == reviewCountOrZero(b)
  IN  IF bReviews # aReviews THEN bReviews - aReviews
      ELSE b.rating - a.rating

\* the comparator the switch selects
compareFn(option, a, b) ==
  CASE option = "name-asc" -> compareNameAsc(a, b)
    [] option = "name-desc" -> compareNameDesc(a, b)
    [] option = "price-asc" -> comparePriceAsc(a, b)
    [] option = "price-desc" -> comparePriceDesc(a, b)
    [] option = "rating" -> compareRating(a, b)
    [] option = "reviews" -> compareReviews(a, b)

InsertAt(s, k, x) == SubSeq(s, 1, k) \o <<x>> \o SubSeq(s, k + 1, Len(s))

arraySortInsertBeforeEqual(sorted, x, option) ==
  LET notAfter == {i \in 1..Len(sorted) : compareFn(option, sorted[i], x) < 0}
      k == IF notAfter = {} THEN 0
           ELSE CHOOSE i \in notAfter : \A j \in notAfter : j <= i
  IN  InsertAt(sorted, k, x)

\* one step of the stable sort: x goes behind the last element that does not
\* compare greater than x, so behind every element that compares equal
arraySortInsert(sorted, x, option) ==
  LET notAfter == {i \in 1..Len(sorted) : compareFn(option, sorted[i], x) <= 0}
      k == IF notAfter = {} THEN 0
           ELSE CHOOSE i \in notAfter : \A j \in notAfter : j <= i
  IN  InsertAt(sorted, k, x)

\* Array.prototype.sort(compareFn): a stable sort (ECMAScript 2019)
RECURSIVE arraySort(_, _, _)
arraySort(arr, n, option) ==
  IF n = 0 THEN <<>>
  ELSE arraySortInsert(arraySort(arr, n - 1, option), arr[n], option)

SortOptions ==
  {"name-asc", "name-desc", "price-asc", "price-desc", "rating", "reviews"}

UnrecognizedOptions == {"popularity", ""}

sortSwitchDefaultByName(sorted, option) ==
  IF option \in SortOptions THEN arraySort(sorted, Len(sorted), option)
  ELSE arraySort(sorted, Len(sorted), "name-asc")

\* switch (sortOption) { case ...: return sorted.sort(...)  default: return
\* sorted } : the contents of the array `sorted` when the switch returns
sortSwitch(sorted, option) ==
  IF option \in SortOptions THEN arraySort(sorted, Len(sorted), option)
  ELSE sorted

\* The arrays the call works on, by name: "products" is the caller's array.
sortCopyAliased(heap) == [ref |-> "products", heap |-> heap]

\* const sorted = [...products] : a new array with the same elements
sortCopy(heap) ==
  [ref |-> "sorted",
   heap |-> [r \in {"products", "sorted"} |-> heap["products"]]]

\* Array.prototype.sort sorts the array it is called on and returns it
sortProductsOnHeap(heap, option) ==
  LET c == sortCopy(heap)
  IN  [ref |-> c.ref,
       heap |-> [c.heap EXCEPT ![c.ref] = sortSwitch(c.heap[c.ref], option)]]

\* the sequence sortProducts returns
sortProducts(ps, option) ==
  LET r == sortProductsOnHeap([products |-> ps], option)
  IN  r.heap[r.ref]

\* the caller's array once sortProducts has returned
inputAfterSort(ps, option) ==
  sortProductsOnHeap([products |-> ps], option).heap["products"]

\* which array sortProducts returns
sortResultRef(ps, option) ==
  sortProductsOnHeap([products |-> ps], option).ref

\* ------------------------------------------------------------------------
\* Inputs of sortProducts
\* ------------------------------------------------------------------------
SortPool ==
  { [id |-> "1", name |-> Zed, price |-> 10, rating |-> 4,
     reviewCount |-> Some(5), category |-> "X"],
    [id |-> "2", name |-> Ann, price |-> 20, rating |-> 4,
     reviewCount |-> Some(50), category |-> "Y"],
    [id |-> "3", name |-> <<"a", "n", "n">>, price |-> 10, rating |-> 5,
     reviewCount |-> Undefined, category |-> "X"],
    [id |-> "4", name |-> Ann, price |-> 20, rating |-> 4,
     reviewCount |-> Some(50), category |-> "X"],
    [id |-> "5", name |-> <<"A", "n">>, price |-> 30, rating |-> 5,
     reviewCount |-> Some(0), category |-> "Y"],
    [id |-> "6", name |-> <<"Z", "E", "D">>, price |-> 30, rating |-> 3,
     reviewCount |-> Undefined, category |-> "W"] }

InitSort ==
  /\ pc = "call"
  /\ fn = "sortProducts"
  /\ products \in SeqsUpTo(SortPool, MaxSortLen)
  /\ sortOption \in SortOptions \cup UnrecognizedOptions
  /\ criteria = NoCriteria
  /\ selectedCategories = <<>>
  /\ additionalCriteria = Undefined
  /\ out = <<>>
  /\ outRef = "none"
  /\ again = <<>>
  /\ queue = <<>>
  /\ batch = <<>>

CallSortProducts ==
  /\ pc = "call"
  /\ fn = "sortProducts"
  /\ out' = sortProducts(products, sortOption)
  /\ products' = inputAfterSort(products, sortOption)
  /\ outRef' = sortResultRef(products, sortOption)
  /\ pc' = "done"
  /\ UNCHANGED <<fn, criteria, selectedCategories, additionalCriteria,
                 sortOption, again, queue, batch>>

\* sortProducts(sortProducts(P, s), s) : the result is sorted once more
CallSortProductsAgain ==
  /\ pc = "done"
  /\ fn = "sortProducts"
  /\ again' = sortProducts(out, sortOption)
  /\ out' = inputAfterSort(out, sortOption)
  /\ pc' = "again"
  /\ UNCHANGED <<fn, products, criteria, selectedCategories,
                 additionalCriteria, sortOption, outRef, queue, batch>>

NextSort == CallSortProducts \/ CallSortProductsAgain

SpecSort == InitSort /\ [][NextSort]_vars

SortDone == pc = "done" /\ fn = "sortProducts"

\* ------------------------------------------------------------------------
\* Properties of sortProducts
\* ------------------------------------------------------------------------
Occurrences(s, x) == Cardinality({i \in 1..Len(s) : s[i] = x})

IsPermutation(a, b) ==
  /\ Len(a) = Len(b)
  /\ \A x \in Range(a) \cup Range(b) : Occurrences(a, x) = Occurrences(b, x)

Pairs == {ij \in (1..Len(out)) \X (1..Len(out)) : ij[1] < ij[2]}

\* C7: for name-asc, name-desc, price-asc and price-desc the result is a
\* permutation of P ordered by the primary key: ascending by name, descending
\* by name (two products with different names are in the reverse of their
\* name-asc order), non-decreasing in price, non-increasing in price.
C7_NameAndPriceOrder ==
  SortDone =>
    /\ sortOption \in {"name-asc", "name-desc", "price-asc", "price-desc"}
         => IsPermutation(out, products)
    /\ sortOption = "name-asc" =>
         \A ij \in Pairs :
           /\ localeCompare(out[ij[1]].name, out[ij[2]].name) <= 0
           /\ out[ij[1]].name # out[ij[2]].name
                => localeCompare(out[ij[1]].name, out[ij[2]].name) < 0
    /\ sortOption = "name-desc" =>
         \A ij \in Pairs :
           /\ localeCompare(out[ij[1]].name, out[ij[2]].name) >= 0
           /\ out[ij[1]].name # out[ij[2]].name
                => localeCompare(out[ij[1]].name, out[ij[2]].name) > 0
    /\ sortOption = "price-asc" =>
         \A ij \in Pairs : out[ij[1]].price <= out[ij[2]].price
    /\ sortOption = "price-desc" =>
         \A ij \in Pairs : out[ij[1]].price >= out[ij[2]].price

C7_Witness ==
  /\ SortDone
  /\ sortOption = "name-desc"
  /\ Len(out) = 3
  /\ out # products
  /\ \A ij \in Pairs : out[ij[1]].name # out[ij[2]].name
  /\ \E ij \in Pairs :
       toLowerCase(out[ij[1]].name) = toLowerCase(out[ij[2]].name)

\* C8: sortProducts(P, 'rating') is a permutation of P in which ratings are
\* non-increasing and, among products with equal rating, reviewCount (a
\* missing reviewCount counting as 0) is non-increasing.
C8_RatingOrder ==
  (SortDone /\ sortOption = "rating") =>
    /\ IsPermutation(out, products)
    /\ \A ij \in Pairs :
         /\ out[ij[1]].rating >= out[ij[2]].rating
         /\ out[ij[1]].rating = out[ij[2]].rating =>
              reviewCountOrZero(out[ij[1]]) >= reviewCountOrZero(out[ij[2]])

C8_Witness ==
  /\ SortDone
  /\ sortOption = "rating"
  /\ out # products
  /\ \E ij \in Pairs :
       /\ out[ij[1]].rating = out[ij[2]].rating
       /\ reviewCountOrZero(out[ij[1]]) > reviewCountOrZero(out[ij[2]])
  /\ \E ij \in Pairs :
       /\ out[ij[1]].rating > out[ij[2]].rating
       /\ ~Has(out[ij[1]].reviewCount)

\* C9: sortProducts(P, 'reviews') is a permutation of P in which reviewCount
\* (a missing reviewCount counting as 0, a tie with an explicit 0) is
\* non-increasing and, among products with equal reviewCount, rating is
\* non-increasing.
C9_ReviewsOrder ==
  (SortDone /\ sortOption = "reviews") =>
    /\ IsPermutation(out, products)
    /\ \A ij \in Pairs :
         /\ reviewCountOrZero(out[ij[1]]) >= reviewCountOrZero(out[ij[2]])
         /\ reviewCountOrZero(out[ij[1]]) = reviewCountOrZero(out[ij[2]])
              => out[ij[1]].rating >= out[ij[2]].rating

C9_Witness ==
  /\ SortDone
  /\ sortOption = "reviews"
  /\ out # products
  /\ \E ij \in Pairs :
       /\ out[ij[1]].reviewCount = Some(0)
       /\ ~Has(out[ij[2]].reviewCount)
       /\ out[ij[1]].rating > out[ij[2]].rating
  /\ \E ij \in Pairs :
       reviewCountOrZero(out[ij[1]]) > reviewCountOrZero(out[ij[2]])

\* equal primary key and, where the option has one, equal tie-break key
SameSortKeys(option, p, q) ==
  CASE option \in {"name-asc", "name-desc"} -> p.name = q.name
    [] option \in {"price-asc", "price-desc"} -> p.price = q.price
    [] OTHER -> /\ p.rating = q.rating
                /\ reviewCountOrZero(p) = reviewCountOrZero(q)

\* C10: the sort is stable: for every option, the products that share the
\* primary key and the tie-break key of a product appear in the result in
\* the order they have in P.
C10_SortIsStable ==
  SortDone =>
    \A p \in Range(products) :
      SelectSeq(out, LAMBDA q : SameSortKeys(sortOption, p, q))
        = SelectSeq(products, LAMBDA q : SameSortKeys(sortOption, p, q))

C10_Witness ==
  /\ SortDone
  /\ sortOption = "rating"
  /\ out # products
  /\ \E ij \in Pairs :
       /\ out[ij[1]] # out[ij[2]]
       /\ SameSortKeys(sortOption, out[ij[1]], out[ij[2]])
       /\ ~Has(out[ij[1]].reviewCount)

\* C11: for a sortOption that is not one of the six recognized tags,
\* sortProducts(P, sortOption) returns the elements of P in the order of P.
C11_UnrecognizedOptionKeepsOrder ==
  (SortDone /\ sortOption \notin SortOptions) => out = products

C11_Witness ==
  /\ SortDone
  /\ sortOption \notin SortOptions
  /\ Len(out) = 3
  /\ out # sortSwitch(out, "name-asc")
  /\ out # sortSwitch(out, "price-asc")

SortedAgain == pc = "again" /\ fn = "sortProducts"

\* C12: for each of the six valid options s,
\* sortProducts(sortProducts(P, s), s) equals sortProducts(P, s) element for
\* element.
C12_SortIsIdempotent ==
  (SortedAgain /\ sortOption \in SortOptions) => again = out

C12_Witness ==
  /\ SortedAgain
  /\ sortOption = "reviews"
  /\ out # products
  /\ Len(again) = 3
  /\ \E i \in 1..Len(again) : ~Has(again[i].reviewCount)
  /\ \E i \in 1..Len(again) : Has(again[i].reviewCount)

\* ------------------------------------------------------------------------
\* getCategories, countProductsByCategory, getPriceRange
\* ------------------------------------------------------------------------
\* UTF-16 code units of the category strings
codeUnits(str) ==
  CASE str = "V" -> <<86>>
    [] str = "W" -> <<87>>
    [] str = "X" -> <<88>>
    [] str = "Y" -> <<89>>
    [] str = "Xa" -> <<88, 97>>
    [] str = "a" -> <<97>>
    [] str = "constructor" ->
         <<99, 111, 110, 115, 116, 114, 117, 99, 116, 111, 114>>

\* the comparison of Array.prototype.sort() without a comparator: strings
\* are ordered by their code units
defaultCompare(x, y) == lexCompare(codeUnits(x), codeUnits(y))

defaultSortInsert(sorted, x) ==
  LET notAfter == {i \in 1..Len(sorted) : defaultCompare(sorted[i], x) <= 0}
      k == IF notAfter = {} THEN 0
           ELSE CHOOSE i \in notAfter : \A j \in notAfter : j <= i
  IN  InsertAt(sorted, k, x)

RECURSIVE defaultSort(_, _)
defaultSort(arr, n) ==
  IF n = 0 THEN <<>>
  ELSE defaultSortInsert(defaultSort(arr, n - 1), arr[n])

\* products.map((p) => p.category)
mapCategory(ps) == [i \in 1..Len(ps) |-> ps[i].category]

\* Array.from(new Set(arr)) : the first occurrence of each value, in order
RECURSIVE arrayFromSet(_, _)
arrayFromSet(arr, n) ==
  IF n = 0 THEN <<>>
  ELSE LET before == arrayFromSet(arr, n - 1)
       IN  IF arrayIncludes(before, arr[n]) THEN before
           ELSE Append(before, arr[n])

getCategoriesNoSet(ps) ==
  LET categories == mapCategory(ps)
  IN  defaultSort(categories, Len(categories))

getCategories(ps) ==
  LET categories == arrayFromSet(mapCategory(ps), Len(ps))
  IN  defaultSort(categories, Len(categories))

\* A count is a number or NaN
Num(n) == {n}

NaN == {}

\* property names every object literal inherits from Object.prototype
\* (those among the category strings of the model)
ObjectPrototypeKeys == {"constructor"}

\* one round of the forEach callback on the object `counts`, which starts as
\* {} : counts[c] reads an own property or else an inherited one
countStep(counts, c) ==
  LET own == c \in DOMAIN counts
      falsy == IF own THEN counts[c] = NaN \/ counts[c] = Num(0)
               ELSE c \notin ObjectPrototypeKeys
      incremented == IF falsy THEN Num(1)
                     ELSE IF own THEN Num(Val(counts[c]) + 1)
                     ELSE NaN
  IN  [k \in (DOMAIN counts) \cup {c} |->
         IF k = c THEN incremented ELSE counts[k]]

RECURSIVE countProductsByCategoryUpTo(_, _)
countProductsByCategoryUpTo(ps, n) ==
  IF n = 0 THEN [k \in {} |-> NaN]
  ELSE countStep(countProductsByCategoryUpTo(ps, n - 1), ps[n].category)

countProductsByCategory(ps) == countProductsByCategoryUpTo(ps, Len(ps))

mathMin(S) == CHOOSE x \in S : \A y \in S : x <= y

mathMax(S) == CHOOSE x \in S : \A y \in S : x >= y

getPriceRangeFirstLast(ps) ==
  IF Len(ps) = 0 THEN [min |-> 0, max |-> 0]
  ELSE [min |-> ps[1].price, max |-> ps[Len(ps)].price]

getPriceRange(ps) ==
  IF Len(ps) = 0 THEN [min |-> 0, max |-> 0]
  ELSE LET prices == [i \in 1..Len(ps) |-> ps[i].price]
       IN  [min |-> mathMin(Range(prices)), max |-> mathMax(Range(prices))]

MaxAggLen == 3

AggPool ==
  { [id |-> "1", name |-> Zed, price |-> 10, rating |-> 4,
     reviewCount |-> Some(5), category |-> "X"],
    [id |-> "2", name |-> Ann, price |-> 20, rating |-> 4,
     reviewCount |-> Some(50), category |-> "a"],
    [id |-> "3", name |-> Ann, price |-> 30, rating |-> 5,
     reviewCount |-> Undefined, category |-> "X"],
    [id |-> "4", name |-> Zed, price |-> 20, rating |-> 3,
     reviewCount |-> Some(0), category |-> "Xa"],
    [id |-> "5", name |-> Zed, price |-> 40, rating |-> 3,
     reviewCount |-> Some(0), category |-> "Y"],
    [id |-> "6", name |-> Ann, price |-> 10, rating |-> 2,
     reviewCount |-> Undefined, category |-> "constructor"] }

AggFunctions == {"getCategories", "countProductsByCategory", "getPriceRange"}

InitAggregate ==
  /\ pc = "call"
  /\ fn \in AggFunctions
  /\ products \in SeqsUpTo(AggPool, MaxAggLen)
  /\ sortOption = "name-asc"
  /\ criteria = NoCriteria
  /\ selectedCategories = <<>>
  /\ additionalCriteria = Undefined
  /\ out = <<>>
  /\ outRef = "none"
  /\ again = <<>>
  /\ queue = <<>>
  /\ batch = <<>>

CallGetCategories ==
  /\ pc = "call"
  /\ fn = "getCategories"
  /\ out' = getCategories(products)
  /\ outRef' = "categories"
  /\ pc' = "done"
  /\ UNCHANGED <<fn, products, criteria, selectedCategories,
                 additionalCriteria, sortOption, again, queue, batch>>

CallCountProductsByCategory ==
  /\ pc = "call"
  /\ fn = "countProductsByCategory"
  /\ out' = countProductsByCategory(products)
  /\ outRef' = "counts"
  /\ pc' = "done"
  /\ UNCHANGED <<fn, products, criteria, selectedCategories,
                 additionalCriteria, sortOption, again, queue, batch>>

CallGetPriceRange ==
  /\ pc = "call"
  /\ fn = "getPriceRange"
  /\ out' = getPriceRange(products)
  /\ outRef' = "range"
  /\ pc' = "done"
  /\ UNCHANGED <<fn, products, criteria, selectedCategories,
                 additionalCriteria, sortOption, again, queue, batch>>

NextAggregate ==
  CallGetCategories \/ CallCountProductsByCategory \/ CallGetPriceRange

SpecAggregate == InitAggregate /\ [][NextAggregate]_vars

CategoriesOf(ps) == {ps[i].category : i \in 1..Len(ps)}

CountOf(ps, c) == Cardinality({i \in 1..Len(ps) : ps[i].category = c})

RECURSIVE SumCounts(_, _)
SumCounts(counts, keys) ==
  IF keys = {} THEN 0
  ELSE LET k == CHOOSE x \in keys : TRUE
       IN  (IF counts[k] = NaN THEN 0 ELSE Val(counts[k]))
             + SumCounts(counts, keys \ {k})

\* C15: countProductsByCategory(P) has a key for exactly the categories
\* appearing in P, each key's value is the number of products of P carrying
\* that category, and the values sum to the length of P.
C15_CountsPerCategory ==
  (pc = "done" /\ fn = "countProductsByCategory") =>
    /\ DOMAIN out = CategoriesOf(products)
    /\ \A c \in DOMAIN out : out[c] = Num(CountOf(products, c))
    /\ SumCounts(out, DOMAIN out) = Len(products)

PricesOf(ps) == {ps[i].price : i \in 1..Len(ps)}

\* C16: getPriceRange([]) is {min: 0, max: 0}; for non-empty P, min is the
\* smallest and max the largest price in P: min <= price <= max for every
\* product and both bounds are the price of some product.
C16_PriceRangeIsMinMax ==
  (pc = "done" /\ fn = "getPriceRange") =>
    /\ Len(products) = 0 => out = [min |-> 0, max |-> 0]
    /\ Len(products) > 0 =>
         /\ out.min \in PricesOf(products)
         /\ out.max \in PricesOf(products)
         /\ \A x \in PricesOf(products) : out.min <= x /\ x <= out.max

C16_Witness ==
  /\ pc = "done"
  /\ fn = "getPriceRange"
  /\ Len(products) = 3
  /\ out.min = products[2].price
  /\ out.max = products[1].price
  /\ out.min < products[3].price
  /\ products[3].price < out.max

\* ------------------------------------------------------------------------
\* Every utility function, one call per behaviour
\* ------------------------------------------------------------------------
InitPure == InitFilter \/ InitSort \/ InitAggregate

NextPure == NextFilter \/ NextSort \/ NextAggregate

SpecPure == InitPure /\ [][NextPure]_vars

\* C13: no call to filterProducts, filterByCategories, getCategories,
\* countProductsByCategory, getPriceRange or sortProducts (recognized option
\* or not) changes its input: the argument array holds the same products in
\* the same order with the same fields after the call, and the array that
\* filterProducts and sortProducts return is not the argument array.
C13_InputsNotMutated ==
  [][ /\ (pc = "call" /\ pc' = "done") =>
           /\ products' = products
           /\ fn \in {"filterProducts", "sortProducts"}
                => outRef' \notin {"none", "products"}
      /\ (pc = "done" /\ pc' = "again") => out' = out ]_vars

C13_Witness ==
  /\ pc = "done"
  /\ fn = "sortProducts"
  /\ sortOption = "price-desc"
  /\ Len(products) = 3
  /\ out # products
  /\ outRef = "sorted"

\* ------------------------------------------------------------------------
\* ProductGridWithFilters and ProductsDemo
\* ------------------------------------------------------------------------
\* selectedCategories and sortOption are the state of the last render, out
\* is filteredAndSortedProducts of the last render, queue holds the state
\* updates handed to setSelectedCategories / setSortOption since then, and
\* batch names the events of the current batch (of the last one once it has
\* been rendered).  ProductFilter reads the props of the last render.
MaxPending == 2

Components == {"ProductGridWithFilters", "ProductsDemo"}

CatalogA ==
  << [id |-> "1", name |-> Zed, price |-> 10, rating |-> 4,
      reviewCount |-> Some(5), category |-> "X"],
     [id |-> "2", name |-> Ann, price |-> 20, rating |-> 4,
      reviewCount |-> Some(50), category |-> "a"],
     [id |-> "3", name |-> <<"a", "n", "n">>, price |-> 30, rating |-> 5,
      reviewCount |-> Undefined, category |-> "X"],
     [id |-> "4", name |-> <<"A", "n">>, price |-> 20, rating |-> 3,
      reviewCount |-> Some(0), category |-> "Y"] >>

CatalogB ==
  << [id |-> "2", name |-> Ann, price |-> 20, rating |-> 4,
      reviewCount |-> Some(50), category |-> "a"] >>

\* the options the dropdown is operated with
UISortOptions == {"name-asc", "price-desc", "rating"}

\* onCategoryChange(category, isSelected) : a queued functional update
categoryUpdate(category, isSelected) ==
  [kind |-> "change", category |-> category, isSelected |-> isSelected,
   option |-> ""]

\* setSelectedCategories([])
emptyUpdate ==
  [kind |-> "set", category |-> "", isSelected |-> FALSE, option |-> ""]

\* setSortOption(option)
sortUpdate(option) ==
  [kind |-> "sort", category |-> "", isSelected |-> FALSE, option |-> option]

\* the updater of handleCategoryChange applied to the previous state
applyCategoryChange(prev, category, isSelected) ==
  IF isSelected
  THEN defaultSort(Append(prev, category), Len(prev) + 1)
  ELSE SelectSeq(prev, LAMBDA c : c # category)

\* updates computed from the rendered state instead of the previous one:
\* only the last of them counts
selectedAfterLastOnly(selected, updates, n) ==
  IF n = 0 THEN selected
  ELSE CASE updates[n].kind = "change" ->
              applyCategoryChange(selected, updates[n].category,
                                  updates[n].isSelected)
         [] updates[n].kind = "set" -> <<>>
         [] OTHER -> selected

RECURSIVE selectedAfter(_, _, _)
selectedAfter(selected, updates, n) ==
  IF n = 0 THEN selected
  ELSE LET before == selectedAfter(selected, updates, n - 1)
           u == updates[n]
       IN  CASE u.kind = "change" ->
                  applyCategoryChange(before, u.category, u.isSelected)
             [] u.kind = "set" -> <<>>
             [] OTHER -> before

RECURSIVE sortOptionAfter(_, _, _)
sortOptionAfter(option, updates, n) ==
  IF n = 0 THEN option
  ELSE IF updates[n].kind = "sort" THEN updates[n].option
  ELSE sortOptionAfter(option, updates, n - 1)

\* the body of the useMemo that yields filteredAndSortedProducts
filteredAndSorted(ps, selected, option) ==
  LET filtered == filterByCategories(ps, selected, Undefined)
  IN  sortProducts(filtered, option)

memoDepsWithoutSort(ps, selected, option) == <<ps, selected>>

\* [products, selectedCategories, sortOption]
memoDeps(ps, selected, option) == <<ps, selected, option>>

\* useMemo : the value is computed again when a dependency has changed
useMemoList(previous, oldDeps, newDeps, value) ==
  IF oldDeps = newDeps THEN previous ELSE value

\* handleClearFilters of ProductFilter:
\* selectedCategories.forEach((category) => onCategoryChange(category, false))
productFilterClear(selected) ==
  [i \in 1..Len(selected) |-> categoryUpdate(selected[i], FALSE)]

\* the events of a batch: a first event after a render opens a new batch
batchWith(event) == IF queue = <<>> THEN <<event>> ELSE Append(batch, event)

InitUI ==
  /\ pc = "ui"
  /\ fn \in Components
  /\ products = CatalogA
  /\ selectedCategories = <<>>
  /\ sortOption = "name-asc"
  /\ out = filteredAndSorted(CatalogA, <<>>, "name-asc")
  /\ queue = <<>>
  /\ batch = <<>>
  /\ criteria = NoCriteria
  /\ additionalCriteria = Undefined
  /\ outRef = "none"
  /\ again = <<>>

\* a checkbox of ProductFilter changes: handleCategoryToggle(category)
HandleCategoryToggle(category) ==
  /\ pc = "ui"
  /\ Len(queue) < MaxPending
  /\ arrayIncludes(getCategories(products), category)
  /\ LET isCurrentlySelected == arrayIncludes(selectedCategories, category)
     IN  queue' = Append(queue, categoryUpdate(category, ~isCurrentlySelected))
  /\ batch' = batchWith("toggle")
  /\ UNCHANGED <<pc, fn, products, criteria, selectedCategories,
                 additionalCriteria, sortOption, out, outRef, again>>

\* the Clear button of ProductFilter, rendered when a category is selected
ProductFilterClear ==
  /\ pc = "ui"
  /\ Len(queue) < MaxPending
  /\ Len(selectedCategories) > 0
  /\ queue' = queue \o productFilterClear(selectedCategories)
  /\ batch' = batchWith("clear")
  /\ UNCHANGED <<pc, fn, products, criteria, selectedCategories,
                 additionalCriteria, sortOption, out, outRef, again>>

\* "Clear filters" of the empty-state panel: setSelectedCategories([])
EmptyStateClearFilters ==
  /\ pc = "ui"
  /\ Len(queue) < MaxPending
  /\ Len(out) = 0
  /\ fn = "ProductGridWithFilters" => Len(selectedCategories) > 0
  /\ queue' = Append(queue, emptyUpdate)
  /\ batch' = batchWith("clearFilters")
  /\ UNCHANGED <<pc, fn, products, criteria, selectedCategories,
                 additionalCriteria, sortOption, out, outRef, again>>

\* SortDropdown onChange: setSortOption(option)
SortDropdownChange(option) ==
  /\ pc = "ui"
  /\ Len(queue) < MaxPending
  /\ fn = "ProductGridWithFilters" => Len(out) > 0
  /\ queue' = Append(queue, sortUpdate(option))
  /\ batch' = batchWith("sort")
  /\ UNCHANGED <<pc, fn, products, criteria, selectedCategories,
                 additionalCriteria, sortOption, out, outRef, again>>

\* the render that applies the queued updates
Render ==
  /\ pc = "ui"
  /\ queue # <<>>
  /\ selectedCategories' =
       selectedAfter(selectedCategories, queue, Len(queue))
  /\ sortOption' = sortOptionAfter(sortOption, queue, Len(queue))
  /\ out' = useMemoList(out,
                        memoDeps(products, selectedCategories, sortOption),
                        memoDeps(products, selectedCategories', sortOption'),
                        filteredAndSorted(products, selectedCategories',
                                          sortOption'))
  /\ queue' = <<>>
  /\ UNCHANGED <<pc, fn, products, criteria, additionalCriteria, outRef,
                 again, batch>>

\* the parent renders ProductGridWithFilters with another products prop
ProductsPropChange ==
  /\ pc = "ui"
  /\ fn = "ProductGridWithFilters"
  /\ queue = <<>>
  /\ products' = IF products = CatalogA THEN CatalogB ELSE CatalogA
  /\ out' = useMemoList(out,
                        memoDeps(products, selectedCategories, sortOption),
                        memoDeps(products', selectedCategories, sortOption),
                        filteredAndSorted(products', selectedCategories,
                                          sortOption))
  /\ batch' = <<"props">>
  /\ UNCHANGED <<pc, fn, criteria, selectedCategories, additionalCriteria,
                 sortOption, outRef, again, queue>>

NextUI ==
  \/ \E category \in {"X", "Y", "a"} : HandleCategoryToggle(category)
  \/ ProductFilterClear
  \/ EmptyStateClearFilters
  \/ \E option \in UISortOptions : SortDropdownChange(option)
  \/ Render
  \/ ProductsPropChange

SpecUI == InitUI /\ [][NextUI]_vars

\* C17: starting from an empty selection and name-asc, after any sequence of
\* toggles, clear actions and sort changes the rendered list equals
\* sortProducts(filterByCategories(allProducts, selectedCategories),
\* sortOption) computed from the current state.
C17_RenderedListIsFilterThenSort ==
  pc = "ui" =>
    out = sortProducts(
            filterByCategories(products, selectedCategories, Undefined),
            sortOption)

C17_Witness ==
  /\ pc = "ui"
  /\ queue = <<>>
  /\ batch = <<"sort">>
  /\ selectedCategories = <<"X", "Y">>
  /\ sortOption = "price-desc"
  /\ Len(out) = 3
  /\ out # filterByCategories(products, selectedCategories, Undefined)

\* C18: after any sequence of onCategoryChange callbacks coming from
\* ProductFilter, two toggles of one category from the same rendered props
\* included, selectedCategories is strictly ascending: sorted, no category
\* twice.
C18_SelectionStrictlyAscending ==
  pc = "ui" =>
    \A i \in 1..Len(selectedCategories) : \A j \in 1..Len(selectedCategories) :
      i < j => defaultCompare(selectedCategories[i], selectedCategories[j]) < 0

ClearBatches == {<<"clear">>, <<"clearFilters">>}

====
